---- MODULE Spec2Model ----
(***************************************************************************)
(* A model of nannou's wgpu helpers: the render pass builder               *)
(* (nannou/src/wgpu/render_pass.rs), the Draw renderer                     *)
(* (src/draw/backend/wgpu/mod.rs) and the texture Reshaper                 *)
(* (nannou/src/wgpu/texture/reshaper/mod.rs).                              *)
(*                                                                         *)
(* Option<T> is modelled as a sequence: None is <<>> and Some(x) is <<x>>. *)
(* A closure handed to a builder is the sequence of setter calls it makes  *)
(* on the attachment builder, each call a record [op, arg].                *)
(***************************************************************************)
EXTENDS Integers, Sequences, FiniteSets, TLC

VARIABLES
    builder,      \* render_pass::Builder under construction
    colorCalls,   \* history: the color_attachment calls made on it, in order
    depthCalls,   \* history: the depth_stencil_attachment calls made on it
    inner,        \* Option of the pair returned by Builder::into_inner
    sub,          \* an attachment descriptor builder: [kind, descriptor]
    subNew,       \* history: the attachment `sub` was created with
    setterLog,    \* history: the setter calls made on `sub`, in order
    prevSub,      \* history: sub.descriptor before the last setter call
    renderer,     \* draw::backend::wgpu::Renderer
    ctor,         \* history: the arguments the Renderer was constructed with
    encoder,      \* the wgpu::CommandEncoder handed to the last call, after it
    encodeCall,   \* history: Option of the arguments of the last encode call
    reshaper,     \* wgpu::texture::reshaper::Reshaper
    reshArgs,     \* history: the arguments of Reshaper::new
    reshEncoder,  \* the command encoder handed to the Reshaper's last call, after it
    reshCall,     \* history: Option of the arguments of that call
    samplerB,     \* wgpu::SamplerBuilder, or None once to_descriptor consumed it
    samplerLog,   \* history: how the builder began and the setter calls made on it
    prevSampler,  \* history: Option of the builder's descriptor before the last setter
    samplerOut,   \* history: what build / to_descriptor returned since the last setter
    prim,         \* draw::primitive::texture::Texture
    mesh,         \* draw::Mesh: the textured points added to it
    primRender    \* history: Option of the last render_primitive call and its outcome

passVars == <<builder, colorCalls, depthCalls, inner>>
attVars  == <<sub, subNew, setterLog, prevSub>>
rendVars == <<renderer, ctor, encoder, encodeCall>>
reshVars == <<reshaper, reshArgs, reshEncoder, reshCall>>
sampVars == <<samplerB, samplerLog, prevSampler, samplerOut>>
primVars == <<prim, mesh, primRender>>
vars == <<passVars, attVars, rendVars, reshVars, sampVars, primVars>>

\* What the actions of one specification leave alone.
notPass == <<attVars, rendVars, reshVars, sampVars, primVars>>
notAtt == <<passVars, rendVars, reshVars, sampVars, primVars>>
notRend == <<passVars, attVars, reshVars, sampVars, primVars>>
notResh == <<passVars, attVars, rendVars, sampVars, primVars>>
notSamp == <<passVars, attVars, rendVars, reshVars, primVars>>
notPrim == <<passVars, attVars, rendVars, reshVars, sampVars>>

None == <<>>
Some(x) == <<x>>

-----------------------------------------------------------------------------
(* Bounds and input domains *)

MaxColorCalls == 2
MaxDepthCalls == 2
MaxSetters == 2

\* Textures are records of what the code reads back from them.
Texture(size, format, usage, sample_count) ==
    [size |-> size, format |-> format, usage |-> usage, sample_count |-> sample_count]

\* A TextureViewHandle names the texture it views; a TextureView wraps a handle.
ViewHandle(texture) == [view_of |-> texture]
TextureView(texture) == [handle |-> ViewHandle(texture)]
\* &**t : TextureView -> TextureViewHandle
Deref(view) == view.handle

TexA == Texture(<<2, 2>>, "Rgba8Unorm", "OUTPUT_ATTACHMENT", 1)
TexB == Texture(<<4, 2>>, "Rgba8Unorm", "OUTPUT_ATTACHMENT", 4)
Handles == {ViewHandle(TexA), ViewHandle(TexB)}

\* wgpu::Color as <<r, g, b, a>>.
TRANSPARENT == <<0, 0, 0, 0>>
RED == <<1, 0, 0, 1>>
Colors == {TRANSPARENT, RED}

\* wgpu::LoadOp<V>
Load == [op |-> "Load", value |-> None]
Clear(v) == [op |-> "Clear", value |-> Some(v)]

ColorLoadOps == {Load} \cup {Clear(c) : c \in Colors}
\* f32 depth values 0.0 and 1.0, u32 stencil values
DepthValues == {0, 1}
StencilValues == {0, 255}
DepthLoadOps == {Load} \cup {Clear(d) : d \in DepthValues}
StencilLoadOps == {Load} \cup {Clear(s) : s \in StencilValues}
ResolveTargets == {None, Some(TextureView(TexA))}

Call(op, arg) == [op |-> op, arg |-> arg]

-----------------------------------------------------------------------------
(* ColorAttachmentDescriptorBuilder *)

DEFAULT_LOAD_OP == Clear(TRANSPARENT)
DEFAULT_STORE_OP == TRUE

ColorAttachmentDescriptorBuilder_new(attachment) ==
    [attachment |-> attachment,
     resolve_target |-> None,
     ops |-> [load |-> DEFAULT_LOAD_OP, store |-> DEFAULT_STORE_OP]]

resolve_target(d, target) ==
    [d EXCEPT !.resolve_target = IF target = None THEN None ELSE Some(Deref(target[1]))]

resolve_target_handle(d, target) == [d EXCEPT !.resolve_target = target]

load_op(d, l) == [d EXCEPT !.ops.load = l]

store_op(d, store) == [d EXCEPT !.ops.store = store]

clear_color_dropped(d, color) == d
clear_color(d, color) == [d EXCEPT !.ops.load = Clear(color)]

-----------------------------------------------------------------------------
(* DepthStencilAttachmentDescriptorBuilder *)

DEFAULT_DEPTH_LOAD_OP == Clear(1)
DEFAULT_DEPTH_STORE_OP == TRUE
DEFAULT_STENCIL_LOAD_OP == Clear(0)
DEFAULT_STENCIL_STORE_OP == TRUE

\* new() fills stencil_ops from the DEPTH defaults (lines 86-89).  The setters
\* stencil_store_op and clear_stencil assign descriptor fields of those names
\* (lines 120, 126), which new() never sets: they start as None here.
DepthStencilAttachmentDescriptorBuilder_new(attachment) ==
    [attachment |-> attachment,
     depth_ops |-> Some([load |-> DEFAULT_DEPTH_LOAD_OP, store |-> DEFAULT_DEPTH_STORE_OP]),
     stencil_ops |-> Some([load |-> DEFAULT_DEPTH_LOAD_OP, store |-> DEFAULT_DEPTH_STORE_OP]),
     stencil_store_op |-> None,
     clear_stencil |-> None]

depth_load_op(d, l) == [d EXCEPT !.depth_ops = Some([d.depth_ops[1] EXCEPT !.load = l])]

depth_store_op(d, s) == [d EXCEPT !.depth_ops = Some([d.depth_ops[1] EXCEPT !.store = s])]

clear_depth(d, depth) ==
    [d EXCEPT !.depth_ops = Some([d.depth_ops[1] EXCEPT !.load = Clear(depth)])]

stencil_load_op(d, l) == [d EXCEPT !.stencil_ops = Some([d.stencil_ops[1] EXCEPT !.load = l])]

stencil_store_op(d, s) == [d EXCEPT !.stencil_store_op = Some(s)]

clear_stencil(d, stencil) == [d EXCEPT !.clear_stencil = Some(stencil)]

-----------------------------------------------------------------------------
(* Closures: the setter calls a closure makes, applied in order *)

ApplyColorSetter(d, c) ==
    CASE c.op = "resolve_target" -> resolve_target(d, c.arg)
      [] c.op = "resolve_target_handle" -> resolve_target_handle(d, c.arg)
      [] c.op = "load_op" -> load_op(d, c.arg)
      [] c.op = "store_op" -> store_op(d, c.arg)
      [] c.op = "clear_color" -> clear_color(d, c.arg)

ApplyDepthSetter(d, c) ==
    CASE c.op = "depth_load_op" -> depth_load_op(d, c.arg)
      [] c.op = "depth_store_op" -> depth_store_op(d, c.arg)
      [] c.op = "clear_depth" -> clear_depth(d, c.arg)
      [] c.op = "stencil_load_op" -> stencil_load_op(d, c.arg)
      [] c.op = "stencil_store_op" -> stencil_store_op(d, c.arg)
      [] c.op = "clear_stencil" -> clear_stencil(d, c.arg)

RECURSIVE RunColorClosure(_, _)
RunColorClosure(d, closure) ==
    IF closure = <<>> THEN d
    ELSE RunColorClosure(ApplyColorSetter(d, Head(closure)), Tail(closure))

RECURSIVE RunDepthClosure(_, _)
RunDepthClosure(d, closure) ==
    IF closure = <<>> THEN d
    ELSE RunDepthClosure(ApplyDepthSetter(d, Head(closure)), Tail(closure))

\* The closures the render pass Builder is driven with.
ColorClosures ==
    {<<>>,
     <<Call("clear_color", RED)>>,
     <<Call("load_op", Load), Call("store_op", FALSE)>>,
     <<Call("resolve_target", Some(TextureView(TexA))), Call("load_op", Load),
       Call("clear_color", TRANSPARENT)>>}

DepthClosures ==
    {<<>>,
     <<Call("clear_depth", 0), Call("stencil_load_op", Load)>>}

-----------------------------------------------------------------------------
(* render_pass::Builder *)

Builder_new == [color_attachments |-> <<>>, depth_stencil_attachment |-> None]

color_attachment_front(b, attachment, color_builder) ==
    [b EXCEPT !.color_attachments =
        <<RunColorClosure(ColorAttachmentDescriptorBuilder_new(attachment), color_builder)>>
        \o @]
color_attachment(b, attachment, color_builder) ==
    LET bld == ColorAttachmentDescriptorBuilder_new(attachment)
        descriptor == RunColorClosure(bld, color_builder)
    IN [b EXCEPT !.color_attachments = Append(@, descriptor)]

depth_stencil_attachment_first(b, attachment, depth_stencil_builder) ==
    IF b.depth_stencil_attachment # None THEN b
    ELSE [b EXCEPT !.depth_stencil_attachment =
            Some(RunDepthClosure(DepthStencilAttachmentDescriptorBuilder_new(attachment),
                                 depth_stencil_builder))]
depth_stencil_attachment(b, attachment, depth_stencil_builder) ==
    LET bld == DepthStencilAttachmentDescriptorBuilder_new(attachment)
        descriptor == RunDepthClosure(bld, depth_stencil_builder)
    IN [b EXCEPT !.depth_stencil_attachment = Some(descriptor)]

into_inner(b) == <<b.color_attachments, b.depth_stencil_attachment>>

\* begin: encoder.begin_render_pass(&descriptor); the encoder is the sequence of
\* render passes recorded on it, each with the commands recorded in the pass.
begin(b, enc) ==
    LET parts == into_inner(b)
        descriptor == [color_attachments |-> parts[1],
                       depth_stencil_attachment |-> parts[2]]
    IN Append(enc, [descriptor |-> descriptor, commands |-> <<>>])

\* Record with the command put before the ones the pass already holds
Record_front(enc, cmd) ==
    [enc EXCEPT ![Len(enc)].commands = <<cmd>> \o @]

\* A command recorded on the render pass begun last.
Record(enc, cmd) ==
    [enc EXCEPT ![Len(enc)].commands = Append(@, cmd)]

-----------------------------------------------------------------------------
(* Specification of the render pass Builder *)

AttIdle ==
    /\ sub = None
    /\ subNew = None
    /\ setterLog = <<>>
    /\ prevSub = None

PassInit ==
    /\ builder = Builder_new
    /\ colorCalls = <<>>
    /\ depthCalls = <<>>
    /\ inner = None

RendIdle ==
    /\ renderer = None
    /\ ctor = None
    /\ encoder = <<>>
    /\ encodeCall = None

ReshIdle ==
    /\ reshaper = None
    /\ reshArgs = None
    /\ reshEncoder = <<>>
    /\ reshCall = None

SampIdle ==
    /\ samplerB = None
    /\ samplerLog = <<>>
    /\ prevSampler = None
    /\ samplerOut = <<>>

PrimIdle ==
    /\ prim = None
    /\ mesh = <<>>
    /\ primRender = None

Init == PassInit /\ AttIdle /\ RendIdle /\ ReshIdle /\ SampIdle /\ PrimIdle

New ==
    /\ inner # None
    /\ builder' = Builder_new
    /\ colorCalls' = <<>>
    /\ depthCalls' = <<>>
    /\ inner' = None
    /\ UNCHANGED notPass

ColorAttachment(attachment, closure) ==
    /\ inner = None
    /\ Len(colorCalls) < MaxColorCalls
    /\ builder' = color_attachment(builder, attachment, closure)
    /\ colorCalls' = Append(colorCalls, [attachment |-> attachment, closure |-> closure])
    /\ UNCHANGED <<depthCalls, inner, notPass>>

DepthStencilAttachment(attachment, closure) ==
    /\ inner = None
    /\ Len(depthCalls) < MaxDepthCalls
    /\ builder' = depth_stencil_attachment(builder, attachment, closure)
    /\ depthCalls' = Append(depthCalls, [attachment |-> attachment, closure |-> closure])
    /\ UNCHANGED <<colorCalls, inner, notPass>>

IntoInner ==
    /\ inner = None
    /\ inner' = Some(into_inner(builder))
    /\ UNCHANGED <<builder, colorCalls, depthCalls, notPass>>

Next ==
    \/ New
    \/ \E a \in Handles, f \in ColorClosures : ColorAttachment(a, f)
    \/ \E a \in Handles, f \in DepthClosures : DepthStencilAttachment(a, f)
    \/ IntoInner

Spec == Init /\ [][Next]_vars

-----------------------------------------------------------------------------
(* Specification of the attachment descriptor builders: one builder is      *)
(* created by new() and each action is one call of a setter on it.          *)

PassIdle == PassInit

AttInit ==
    /\ \E a \in Handles :
          /\ sub \in {[kind |-> "color", descriptor |-> ColorAttachmentDescriptorBuilder_new(a)],
                      [kind |-> "depth",
                       descriptor |-> DepthStencilAttachmentDescriptorBuilder_new(a)]}
          /\ subNew = a
    /\ setterLog = <<>>
    /\ prevSub = None
    /\ PassIdle
    /\ RendIdle
    /\ ReshIdle
    /\ SampIdle
    /\ PrimIdle

NewColorBuilder(a) ==
    /\ sub' = [kind |-> "color", descriptor |-> ColorAttachmentDescriptorBuilder_new(a)]
    /\ subNew' = a
    /\ setterLog' = <<>>
    /\ prevSub' = None
    /\ UNCHANGED notAtt

NewDepthBuilder(a) ==
    /\ sub' = [kind |-> "depth", descriptor |-> DepthStencilAttachmentDescriptorBuilder_new(a)]
    /\ subNew' = a
    /\ setterLog' = <<>>
    /\ prevSub' = None
    /\ UNCHANGED notAtt

\* One setter call `c` on the builder, with result descriptor `d`.
Setter(kind, c, d) ==
    /\ sub.kind = kind
    /\ Len(setterLog) < MaxSetters
    /\ sub' = [sub EXCEPT !.descriptor = d]
    /\ setterLog' = Append(setterLog, c)
    /\ prevSub' = Some(sub.descriptor)
    /\ UNCHANGED <<subNew, notAtt>>

ResolveTarget(t) ==
    Setter("color", Call("resolve_target", t), resolve_target(sub.descriptor, t))

ResolveTargetHandle(t) ==
    Setter("color", Call("resolve_target_handle", t), resolve_target_handle(sub.descriptor, t))

LoadOp(l) == Setter("color", Call("load_op", l), load_op(sub.descriptor, l))

StoreOp(b) == Setter("color", Call("store_op", b), store_op(sub.descriptor, b))

ClearColor(c) == Setter("color", Call("clear_color", c), clear_color(sub.descriptor, c))

DepthLoadOp(l) == Setter("depth", Call("depth_load_op", l), depth_load_op(sub.descriptor, l))

DepthStoreOp(b) == Setter("depth", Call("depth_store_op", b), depth_store_op(sub.descriptor, b))

ClearDepth(d) == Setter("depth", Call("clear_depth", d), clear_depth(sub.descriptor, d))

StencilLoadOp(l) ==
    Setter("depth", Call("stencil_load_op", l), stencil_load_op(sub.descriptor, l))

StencilStoreOp(b) ==
    Setter("depth", Call("stencil_store_op", b), stencil_store_op(sub.descriptor, b))

ClearStencil(s) == Setter("depth", Call("clear_stencil", s), clear_stencil(sub.descriptor, s))

AttNext ==
    \/ \E a \in Handles : NewColorBuilder(a)
    \/ \E a \in Handles : NewDepthBuilder(a)
    \/ \E t \in ResolveTargets : ResolveTarget(t)
    \/ \E t \in ResolveTargets :
          ResolveTargetHandle(IF t = None THEN None ELSE Some(Deref(t[1])))
    \/ \E l \in ColorLoadOps : LoadOp(l)
    \/ \E b \in BOOLEAN : StoreOp(b)
    \/ \E c \in Colors : ClearColor(c)
    \/ \E l \in DepthLoadOps : DepthLoadOp(l)
    \/ \E b \in BOOLEAN : DepthStoreOp(b)
    \/ \E d \in DepthValues : ClearDepth(d)
    \/ \E l \in StencilLoadOps : StencilLoadOp(l)
    \/ \E b \in BOOLEAN : StencilStoreOp(b)
    \/ \E s \in StencilValues : ClearStencil(s)

SpecAttachment == AttInit /\ [][AttNext]_vars

-----------------------------------------------------------------------------
(* Claims about the render pass Builder (specification Spec) *)

\* The descriptor a color_attachment / depth_stencil_attachment call produces.
ProducedColor(call) ==
    RunColorClosure(ColorAttachmentDescriptorBuilder_new(call.attachment), call.closure)
ProducedDepth(call) ==
    RunDepthClosure(DepthStencilAttachmentDescriptorBuilder_new(call.attachment), call.closure)

\* C1: after n color_attachment calls, interleaved with any other builder calls,
\* into_inner returns exactly n color attachment descriptors, the i-th being the
\* one produced by the i-th call (its attachment, the result of its closure), in
\* call order; with no call the list is empty.
C1_ColorAttachmentsInCallOrder ==
    inner # None =>
        LET colors == inner[1][1] IN
        /\ Len(colors) = Len(colorCalls)
        /\ \A i \in 1..Len(colorCalls) :
              /\ colors[i].attachment = colorCalls[i].attachment
              /\ colors[i] = ProducedColor(colorCalls[i])

C1_Witness ==
    /\ inner # None
    /\ Len(colorCalls) = 2
    /\ ProducedColor(colorCalls[1]) # ProducedColor(colorCalls[2])
    /\ depthCalls # <<>>
    /\ inner[1][1] = <<ProducedColor(colorCalls[1]), ProducedColor(colorCalls[2])>>

\* C2: the Builder holds at most one depth stencil attachment: none until
\* depth_stencil_attachment is first called, afterwards the one submitted last,
\* and the color attachments added so far are what the color calls made them.
C2_LastDepthStencilAttachmentWins ==
    /\ Len(builder.depth_stencil_attachment) <= 1
    /\ depthCalls = <<>> => builder.depth_stencil_attachment = None
    /\ depthCalls # <<>> =>
          LET last == depthCalls[Len(depthCalls)] IN
          /\ builder.depth_stencil_attachment # None
          /\ builder.depth_stencil_attachment[1].attachment = last.attachment
          /\ builder.depth_stencil_attachment = Some(ProducedDepth(last))
    /\ inner # None => inner[1][2] = builder.depth_stencil_attachment
    /\ Len(builder.color_attachments) = Len(colorCalls)
    /\ \A i \in 1..Len(colorCalls) : builder.color_attachments[i] = ProducedColor(colorCalls[i])

C2_Witness ==
    /\ Len(depthCalls) = 2
    /\ ProducedDepth(depthCalls[1]) # ProducedDepth(depthCalls[2])
    /\ colorCalls # <<>>
    /\ inner # None
    /\ inner[1][2] = Some(ProducedDepth(depthCalls[2]))

\* C3: a depth stencil attachment added with an identity closure has depth
\* operations DEFAULT_DEPTH_LOAD_OP / DEFAULT_DEPTH_STORE_OP and stencil
\* operations DEFAULT_STENCIL_LOAD_OP / DEFAULT_STENCIL_STORE_OP.
C3_IdentityClosureGivesDefaults ==
    (depthCalls # <<>> /\ depthCalls[Len(depthCalls)].closure = <<>>) =>
        LET d == builder.depth_stencil_attachment[1] IN
        /\ d.depth_ops = Some([load |-> DEFAULT_DEPTH_LOAD_OP,
                               store |-> DEFAULT_DEPTH_STORE_OP])
        /\ d.stencil_ops = Some([load |-> DEFAULT_STENCIL_LOAD_OP,
                                 store |-> DEFAULT_STENCIL_STORE_OP])

-----------------------------------------------------------------------------
(* Claims about the attachment descriptor builders (specification           *)
(* SpecAttachment)                                                          *)

LastCall == setterLog[Len(setterLog)]

\* The load operation the last load_op / clear_color call of the log asks for.
LoadDeciders == {i \in 1..Len(setterLog) : setterLog[i].op \in {"load_op", "clear_color"}}
LastDecider == CHOOSE i \in LoadDeciders : \A j \in LoadDeciders : j <= i

\* C4: a fresh color attachment has no resolve target, load Clear(TRANSPARENT)
\* and store = true; resolve_target / resolve_target_handle, load_op and store_op
\* change only the field they name; clear_color(c) sets the load operation to
\* Clear(c); the last of load_op / clear_color decides the load operation.
C4_ColorAttachmentSetters ==
    sub.kind = "color" =>
        LET d == sub.descriptor IN
        /\ d.attachment = subNew
        /\ setterLog = <<>> =>
              /\ d.resolve_target = None
              /\ d.ops.load = [op |-> "Clear", value |-> <<(<<0, 0, 0, 0>>)>>]
              /\ d.ops.store = TRUE
        /\ setterLog # <<>> =>
              LET p == prevSub[1]
                  c == LastCall
              IN
              /\ c.op = "resolve_target" =>
                    /\ d.resolve_target =
                          (IF c.arg = None THEN None ELSE Some(c.arg[1].handle))
                    /\ d.ops = p.ops
              /\ c.op = "resolve_target_handle" =>
                    /\ d.resolve_target = c.arg
                    /\ d.ops = p.ops
              /\ c.op = "load_op" =>
                    /\ d.ops.load = c.arg
                    /\ d.ops.store = p.ops.store
                    /\ d.resolve_target = p.resolve_target
              /\ c.op = "store_op" =>
                    /\ d.ops.store = c.arg
                    /\ d.ops.load = p.ops.load
                    /\ d.resolve_target = p.resolve_target
              /\ c.op = "clear_color" =>
                    /\ d.ops.load = [op |-> "Clear", value |-> Some(c.arg)]
                    /\ d.ops.store = p.ops.store
                    /\ d.resolve_target = p.resolve_target
        /\ LoadDeciders # {} =>
              LET c == setterLog[LastDecider] IN
              d.ops.load = (IF c.op = "load_op" THEN c.arg
                            ELSE [op |-> "Clear", value |-> Some(c.arg)])
        /\ LoadDeciders = {} => d.ops.load = [op |-> "Clear", value |-> Some(TRANSPARENT)]

C4_Witness ==
    /\ sub.kind = "color"
    /\ Len(setterLog) = 2
    /\ setterLog[1] = Call("load_op", Load)
    /\ setterLog[2] = Call("clear_color", RED)
    /\ sub.descriptor.ops.load = Clear(RED)

\* C5: depth_load_op, depth_store_op and clear_depth change only the depth
\* operations (clear_depth(d) sets the depth load operation to Clear(d));
\* stencil_load_op, stencil_store_op and clear_stencil change only the stencil
\* operations (stencil_store_op(b) sets the stencil store flag to b,
\* clear_stencil(s) sets the stencil load operation to Clear(s)).
C5_DepthStencilSetters ==
    (sub.kind = "depth" /\ setterLog # <<>>) =>
        LET d == sub.descriptor
            p == prevSub[1]
            c == LastCall
        IN
        /\ d.attachment = p.attachment
        /\ c.op \in {"depth_load_op", "depth_store_op", "clear_depth"} =>
              d.stencil_ops = p.stencil_ops
        /\ c.op \in {"stencil_load_op", "stencil_store_op", "clear_stencil"} =>
              d.depth_ops = p.depth_ops
        /\ c.op = "depth_load_op" =>
              d.depth_ops = Some([load |-> c.arg, store |-> p.depth_ops[1].store])
        /\ c.op = "depth_store_op" =>
              d.depth_ops = Some([load |-> p.depth_ops[1].load, store |-> c.arg])
        /\ c.op = "clear_depth" =>
              d.depth_ops = Some([load |-> Clear(c.arg), store |-> p.depth_ops[1].store])
        /\ c.op = "stencil_load_op" =>
              d.stencil_ops = Some([load |-> c.arg, store |-> p.stencil_ops[1].store])
        /\ c.op = "stencil_store_op" =>
              d.stencil_ops = Some([load |-> p.stencil_ops[1].load, store |-> c.arg])
        /\ c.op = "clear_stencil" =>
              d.stencil_ops = Some([load |-> Clear(c.arg), store |-> p.stencil_ops[1].store])

-----------------------------------------------------------------------------
(* draw::backend::wgpu::Renderer *)

MaxVertices == 2
MaxIndices == 2

DEFAULT_DEPTH_FORMAT == "Depth32Float"

ScaleFactors == {1, 2}
OutTex(size) == Texture(size, "Rgba8Unorm", "OUTPUT_ATTACHMENT", 1)

\* A mesh vertex of a Draw: point, colour and texture coordinates.  Points are
\* multiples of 4, so that the f32 arithmetic of from_mesh_vertex is exact for
\* every size and scale factor above.
RawVertex(i, v) ==
    [point |-> <<4 * i, -4 * (i + v), 4 * v>>,
     color |-> <<i, v, 0, 1>>,
     tex_coords |-> <<v, 1 - v>>]

\* A mesh index is a usize, hi * 2^32 + lo, kept as its two halves; the second
\* family of indices does not fit in a u32.
RawIndex(j, v) == IF v = 0 THEN [hi |-> 0, lo |-> j - 1] ELSE [hi |-> 1, lo |-> j]

\* u as u32
as_u32(u) == u.lo

\* The Draws handed to the renderer: with or without a background colour, n
\* vertices and k indices; a Draw with a background takes the second family of
\* vertices and indices, so that successive Draws differ in content too.
Draws ==
    {[background_color |-> bg,
      vertices |-> [i \in 1..n |-> RawVertex(i, IF bg = None THEN 0 ELSE 1)],
      indices |-> [j \in 1..k |-> RawIndex(j, IF bg = None THEN 0 ELSE 1)]] :
        bg \in {None, Some(RED)}, n \in 0..MaxVertices, k \in 0..MaxIndices}

\* A render pass recorded on an encoder by someone else, before the call.
OtherPass ==
    [descriptor |-> [color_attachments |-> <<>>, depth_stencil_attachment |-> None],
     commands |-> <<>>]

from_mesh_vertex(v, framebuffer_width, framebuffer_height, dpi_factor) ==
    LET x_f == v.point[1]
        y_f == v.point[2]
        z_f == v.point[3]
        x == (2 * x_f * dpi_factor) \div framebuffer_width
        y == -((2 * y_f * dpi_factor) \div framebuffer_height)
        z == (2 * z_f * dpi_factor) \div framebuffer_height
    IN [position |-> <<x, y, z>>,
        color |-> <<v.color[1], v.color[2], v.color[3], v.color[4]>>,
        tex_coords |-> <<v.tex_coords[1], v.tex_coords[2]>>]

create_depth_texture_single_sample(size, depth_format, sample_count) ==
    Texture(size, depth_format, "OUTPUT_ATTACHMENT", 1)
create_depth_texture(size, depth_format, sample_count) ==
    Texture(size, depth_format, "OUTPUT_ATTACHMENT", sample_count)

create_default_view(texture) == TextureView(texture)

render_pipeline(color_format, depth_format, msaa_samples) ==
    [color_format |-> color_format,
     depth_format |-> depth_format,
     sample_count |-> msaa_samples]

with_depth_format(output_attachment_size, msaa_samples, output_attachment_color_format, depth_format) ==
    LET depth_texture ==
            create_depth_texture(output_attachment_size, depth_format, msaa_samples)
    IN [render_pipeline |->
            render_pipeline(output_attachment_color_format, depth_format, msaa_samples),
        depth_texture |-> depth_texture,
        depth_texture_view |-> create_default_view(depth_texture),
        bind_group |-> "bind_group",
        vertices |-> <<>>,
        indices |-> <<>>]

Renderer_new(output_attachment_size, msaa_samples, output_attachment_color_format) ==
    with_depth_format(output_attachment_size, msaa_samples, output_attachment_color_format,
                      DEFAULT_DEPTH_FORMAT)

from_texture_descriptor(descriptor) ==
    Renderer_new(descriptor.size, descriptor.sample_count, descriptor.format)

\* vertices.clear(); vertices.extend(draw.raw_vertices().map(map_vertex))
fill_vertices_kept(vertices, draw, img_w, img_h, scale_factor) ==
    vertices \o [i \in 1..Len(draw.vertices) |->
                    from_mesh_vertex(draw.vertices[i], img_w, img_h, scale_factor)]
fill_vertices(vertices, draw, img_w, img_h, scale_factor) ==
    LET cleared == <<>>
    IN cleared \o [i \in 1..Len(draw.vertices) |->
                      from_mesh_vertex(draw.vertices[i], img_w, img_h, scale_factor)]

\* indices.clear(); indices.extend(draw.inner_mesh().indices().iter().map(|&u| u as u32))
fill_indices(indices, draw) ==
    LET cleared == <<>>
    IN cleared \o [j \in 1..Len(draw.indices) |-> as_u32(draw.indices[j])]

\* device.create_buffer_mapped(len, usage).fill_from_slice(data)
create_buffer(data, usage) == [len |-> Len(data), usage |-> usage, contents |-> data]

\* The pair <<renderer, encoder>> after the call.
encode_render_pass(self, enc, draw, scale_factor, output_attachment_size, output_attachment, resolve_target_view) ==
    LET \* Resize the depth texture if the output attachment size has changed.
        resize == output_attachment_size # self.depth_texture.size
        depth_texture ==
            IF resize
            THEN create_depth_texture(output_attachment_size, self.depth_texture.format,
                                      self.depth_texture.sample_count)
            ELSE self.depth_texture
        depth_texture_view ==
            IF resize THEN create_default_view(depth_texture) ELSE self.depth_texture_view
        \* Retrieve the clear values based on the bg color.
        bg_color == draw.background_color
        load == IF bg_color = None THEN Load ELSE [op |-> "Clear", value |-> None]
        color == IF bg_color = None THEN TRANSPARENT
                 ELSE <<bg_color[1][1], bg_color[1][2], bg_color[1][3], bg_color[1][4]>>
        \* Create the vertex and index buffers.
        img_w == output_attachment_size[1]
        img_h == output_attachment_size[2]
        vertices == fill_vertices(self.vertices, draw, img_w, img_h, scale_factor)
        vertex_buffer == create_buffer(vertices, "VERTEX")
        indices == fill_indices(self.indices, draw)
        index_buffer == create_buffer(indices, "INDEX")
        \* Encode the render pass.
        b0 == Builder_new
        b1 == color_attachment(b0, Deref(output_attachment),
                  <<Call("resolve_target", resolve_target_view),
                    Call("load_op", load),
                    Call("clear_color", color)>>)
        b2 == depth_stencil_attachment(b1, Deref(depth_texture_view), <<>>)
        e0 == begin(b2, enc)
        e1 == Record(e0, [cmd |-> "set_pipeline", pipeline |-> self.render_pipeline])
        e2 == Record(e1, [cmd |-> "set_bind_group", index |-> 0,
                          bind_group |-> self.bind_group, offsets |-> <<>>])
        e3 == Record(e2, [cmd |-> "set_index_buffer", buffer |-> index_buffer, offset |-> 0])
        e4 == Record(e3, [cmd |-> "set_vertex_buffers", start_slot |-> 0,
                          buffers |-> << <<vertex_buffer, 0>> >>])
        \* indices.len() as u32: the lengths modelled are far below 2^32
        index_range == <<0, Len(indices)>>
        start_vertex == 0
        instance_range == <<0, 1>>
        e5 == Record(e4, [cmd |-> "draw_indexed", indices |-> index_range,
                          base_vertex |-> start_vertex, instances |-> instance_range])
    IN << [self EXCEPT !.depth_texture = depth_texture,
                       !.depth_texture_view = depth_texture_view,
                       !.vertices = vertices,
                       !.indices = indices],
          e5 >>

render_to_texture(self, enc, draw, texture) ==
    LET size == texture.size
        view == create_default_view(texture)
        scale_factor == 1
        resolve_target_view == None
    IN encode_render_pass(self, enc, draw, scale_factor, size, view, resolve_target_view)

\* frame: [texture, texture_view, command_encoder]
render_to_frame(self, draw, scale_factor, frame) ==
    LET size == frame.texture.size
        attachment == frame.texture_view
        resolve_target_view == None
        command_encoder == frame.command_encoder
    IN encode_render_pass(self, command_encoder, draw, scale_factor, size, attachment,
                          resolve_target_view)

-----------------------------------------------------------------------------
(* Specification of the Renderer *)

Ctor(via, size, msaa_samples, depth_format) ==
    [via |-> via, size |-> size, msaa_samples |-> msaa_samples,
     color_format |-> "Rgba8Unorm", depth_format |-> depth_format]

CtorArgs ==
    {Ctor("with_depth_format", <<2, 2>>, 4, "Depth24Plus"),
     Ctor("new", <<4, 2>>, 1, DEFAULT_DEPTH_FORMAT),
     Ctor("from_texture_descriptor", <<2, 2>>, 4, DEFAULT_DEPTH_FORMAT)}

Construct(a) ==
    CASE a.via = "with_depth_format" ->
            with_depth_format(a.size, a.msaa_samples, a.color_format, a.depth_format)
      [] a.via = "new" -> Renderer_new(a.size, a.msaa_samples, a.color_format)
      [] a.via = "from_texture_descriptor" ->
            from_texture_descriptor(Texture(a.size, a.color_format, "OUTPUT_ATTACHMENT",
                                            a.msaa_samples))

RendInit ==
    /\ ctor \in CtorArgs
    /\ renderer = Construct(ctor)
    /\ encoder = <<>>
    /\ encodeCall = None
    /\ PassIdle
    /\ AttIdle
    /\ ReshIdle
    /\ SampIdle
    /\ PrimIdle

\* History: whether the renderer holds more vertices or indices, left from an
\* earlier call, than the Draw that comes now.
HeldBefore == Len(renderer.vertices) > 1 /\ Len(renderer.indices) > 1

EncodeRenderPass(enc, draw, scale_factor, size, resolve) ==
    LET out == encode_render_pass(renderer, enc, draw, scale_factor, size,
                                  TextureView(OutTex(size)), resolve)
    IN /\ renderer' = out[1]
       /\ encoder' = out[2]
       /\ encodeCall' = Some([via |-> "encode_render_pass", encoder |-> enc, draw |-> draw,
                        held_before |-> HeldBefore,
                        scale_factor |-> scale_factor, size |-> size,
                        output_attachment |-> TextureView(OutTex(size)),
                        resolve_target |-> resolve])
       /\ UNCHANGED <<ctor, notRend>>

RenderToTexture(enc, draw, texture) ==
    LET out == render_to_texture(renderer, enc, draw, texture)
    IN /\ renderer' = out[1]
       /\ encoder' = out[2]
       /\ encodeCall' = Some([via |-> "render_to_texture", encoder |-> enc, draw |-> draw,
                        held_before |-> HeldBefore,
                        scale_factor |-> 1, size |-> texture.size,
                        output_attachment |-> TextureView(texture),
                        resolve_target |-> None])
       /\ UNCHANGED <<ctor, notRend>>

RenderToFrame(draw, scale_factor, frame) ==
    LET out == render_to_frame(renderer, draw, scale_factor, frame)
    IN /\ renderer' = out[1]
       /\ encoder' = out[2]
       /\ encodeCall' = Some([via |-> "render_to_frame", encoder |-> frame.command_encoder,
                        draw |-> draw, held_before |-> HeldBefore,
                        scale_factor |-> scale_factor, size |-> frame.texture.size,
                        output_attachment |-> frame.texture_view,
                        resolve_target |-> None])
       /\ UNCHANGED <<ctor, notRend>>

\* The frames and textures rendered to, of sizes [2, 2] and [4, 2], each with the
\* command encoder that comes with it: a fresh one, and one that holds a pass.
Frames ==
    {[texture |-> OutTex(<<2, 2>>), texture_view |-> TextureView(OutTex(<<2, 2>>)),
      command_encoder |-> <<>>],
     [texture |-> OutTex(<<4, 2>>), texture_view |-> TextureView(OutTex(<<4, 2>>)),
      command_encoder |-> <<OtherPass>>]}

RendNext ==
    \/ \E draw \in Draws, k \in ScaleFactors, f \in Frames, r \in ResolveTargets :
          EncodeRenderPass(f.command_encoder, draw, k, f.texture.size, r)
    \/ \E draw \in Draws, f \in Frames :
          RenderToTexture(f.command_encoder, draw, f.texture)
    \/ \E draw \in Draws, k \in ScaleFactors, f \in Frames : RenderToFrame(draw, k, f)

SpecRenderer == RendInit /\ [][RendNext]_vars

-----------------------------------------------------------------------------
(* Claims about the Renderer (specification SpecRenderer) *)

\* The render pass the last call recorded: the last one of the encoder.
LastPass == encoder[Len(encoder)]

\* C6: with no background colour the pass begins with colour load operation
\* Load (the previous contents are kept); with background colour c it begins
\* with a clear of the output attachment to c.
C6_BackgroundDecidesLoadOp ==
    encodeCall # None =>
        LET bg == encodeCall[1].draw.background_color
            load == LastPass.descriptor.color_attachments[1].ops.load
        IN /\ bg = None => load = Load
           /\ bg # None => load = Clear(bg[1])

\* C7: after every call of encode_render_pass the depth texture has the size
\* given as output_attachment_size, the depth format and sample count the
\* Renderer was constructed with, and the depth view attached to the pass is a
\* view of that depth texture.
C7_DepthTextureFollowsOutputSize ==
    encodeCall # None =>
        LET depth == LastPass.descriptor.depth_stencil_attachment IN
        /\ renderer.depth_texture.size = encodeCall[1].size
        /\ renderer.depth_texture.format = ctor.depth_format
        /\ renderer.depth_texture.sample_count = ctor.msaa_samples
        /\ renderer.depth_texture_view.handle.view_of = renderer.depth_texture
        /\ depth # None
        /\ depth[1].attachment = renderer.depth_texture_view.handle

\* A resize happened: the size differs from the one of construction.
C7_Witness ==
    /\ encodeCall # None
    /\ encodeCall[1].size # ctor.size
    /\ ctor.msaa_samples = 4
    /\ renderer.depth_texture = [size |-> encodeCall[1].size, format |-> "Depth24Plus",
                                 usage |-> "OUTPUT_ATTACHMENT", sample_count |-> 4]
    /\ LastPass.descriptor.depth_stencil_attachment[1].attachment.view_of.size
          = encodeCall[1].size

\* C8: the renderer's vertices and indices hold only the data of the Draw of the
\* most recent call, one converted vertex per raw vertex and one index per mesh
\* index, in order, and the indexed draw covers 0..(number of indices).
C8_BuffersHoldOnlyLastDraw ==
    encodeCall # None =>
        LET c == encodeCall[1]
            draw == c.draw
            last == LastPass.commands[Len(LastPass.commands)]
        IN /\ Len(renderer.vertices) = Len(draw.vertices)
           /\ \A i \in 1..Len(draw.vertices) :
                 /\ renderer.vertices[i].color = draw.vertices[i].color
                 /\ renderer.vertices[i].tex_coords = draw.vertices[i].tex_coords
                 /\ renderer.vertices[i].position[1] * c.size[1]
                       = 2 * draw.vertices[i].point[1] * c.scale_factor
                 /\ renderer.vertices[i].position[2] * c.size[2]
                       = -(2 * draw.vertices[i].point[2] * c.scale_factor)
                 /\ renderer.vertices[i].position[3] * c.size[2]
                       = 2 * draw.vertices[i].point[3] * c.scale_factor
           /\ Len(renderer.indices) = Len(draw.indices)
           /\ \A j \in 1..Len(draw.indices) : renderer.indices[j] = draw.indices[j].lo
           /\ last.cmd = "draw_indexed"
           /\ last.indices = <<0, Len(draw.indices)>>

\* A Draw with fewer vertices and indices than the renderer held before the call.
C8_Witness ==
    /\ encodeCall # None
    /\ encodeCall[1].held_before
    /\ Len(encodeCall[1].draw.vertices) = 1
    /\ Len(encodeCall[1].draw.indices) = 1
    /\ encodeCall[1].draw.background_color # None
    /\ Len(renderer.vertices) = 1
    /\ renderer.indices = <<1>>

-----------------------------------------------------------------------------
(* wgpu::texture::reshaper::Reshaper *)

MaxSampleCount == 17

VERTICES ==
    <<[position |-> <<-1, 1>>],
      [position |-> <<-1, -1>>],
      [position |-> <<1, 1>>],
      [position |-> <<1, -1>>]>>

\* We provide pre-prepared fragment shaders with unrolled resolves for common
\* sample counts.
unrolled_sample_count_without_16(sample_count) == sample_count \in {1, 2, 4, 8}
unrolled_sample_count(sample_count) == sample_count \in {1, 2, 4, 8, 16}

\* The match of Reshaper::new on src_sample_count.
fragment_shader(src_sample_count) ==
    CASE src_sample_count = 1 -> "shaders/frag.spv"
      [] src_sample_count = 2 -> "shaders/frag_msaa2.spv"
      [] src_sample_count = 4 -> "shaders/frag_msaa4.spv"
      [] src_sample_count = 8 -> "shaders/frag_msaa8.spv"
      [] src_sample_count = 16 -> "shaders/frag_msaa16.spv"
      [] OTHER -> "shaders/frag_msaa.spv"

reshaper_bind_group_layout(src_sample_count, src_component_type) ==
    LET bld == <<[binding |-> "sampled_texture", visibility |-> "FRAGMENT",
                  multisampled |-> src_sample_count > 1, dimension |-> "D2",
                  component_type |-> src_component_type],
                 [binding |-> "sampler", visibility |-> "FRAGMENT"]>>
    IN IF ~unrolled_sample_count(src_sample_count)
       THEN Append(bld, [binding |-> "uniform_buffer", visibility |-> "FRAGMENT",
                         dynamic |-> FALSE])
       ELSE bld

reshaper_bind_group(layout, texture, sampler, uniform_buffer) ==
    LET bld == <<[texture_view |-> texture], [sampler |-> sampler]>>
    IN [layout |-> layout,
        bindings |-> IF uniform_buffer # None
                     THEN Append(bld, [buffer |-> uniform_buffer[1], range |-> <<0, 1>>])
                     ELSE bld]

pipeline_layout(bind_group_layout) ==
    [label |-> Some("nannou_pipeline_layout_descriptor"),
     bind_group_layouts |-> <<bind_group_layout>>,
     push_constant_ranges |-> <<>>]

reshaper_render_pipeline(layout, vs_mod, fs_mod, dst_sample_count, dst_format) ==
    [layout |-> layout,
     vertex_shader |-> vs_mod,
     fragment_shader |-> fs_mod,
     color_format |-> dst_format,
     color_blend |-> "REPLACE",
     alpha_blend |-> "REPLACE",
     vertex_buffers |-> << <<"Float2">> >>,
     primitive_topology |-> "TriangleStrip",
     index_format |-> "Uint16",
     sample_count |-> dst_sample_count]

\* device.create_buffer_init(&BufferInitDescriptor { label, contents, usage })
create_buffer_init(contents, usage) ==
    [label |-> Some("nannou_buffer_init_descriptor"), contents |-> contents, usage |-> usage]

Reshaper_new(src_texture, src_sample_count, src_component_type, dst_sample_count, dst_format) ==
    LET vs_mod == "shaders/vert.spv"
        fs_mod == fragment_shader(src_sample_count)
        sampler == "SamplerBuilder::new().build(device)"
        bind_group_layout == reshaper_bind_group_layout(src_sample_count, src_component_type)
        layout == pipeline_layout(bind_group_layout)
        pipeline == reshaper_render_pipeline(layout, vs_mod, fs_mod, dst_sample_count,
                                             dst_format)
        uniform_buffer ==
            IF unrolled_sample_count(src_sample_count) THEN None
            ELSE Some(create_buffer_init([sample_count |-> src_sample_count], "UNIFORM"))
        bind_group == reshaper_bind_group(bind_group_layout, src_texture, sampler,
                                          uniform_buffer)
        vertex_buffer == create_buffer_init(VERTICES, "VERTEX")
    IN [vs_mod |-> vs_mod,
        fs_mod |-> fs_mod,
        bind_group_layout |-> bind_group_layout,
        bind_group |-> bind_group,
        render_pipeline |-> pipeline,
        sampler |-> sampler,
        uniform_buffer |-> uniform_buffer,
        vertex_buffer |-> vertex_buffer]

\* The encoder after the call.
Reshaper_encode_render_pass_draw_twice(self, dst_texture, enc) ==
    LET e0 == begin(color_attachment(Builder_new, dst_texture, <<>>), enc)
        e1 == Record(e0, [cmd |-> "set_pipeline", pipeline |-> self.render_pipeline])
        e2 == Record(e1, [cmd |-> "set_vertex_buffer", slot |-> 0,
                          buffer |-> self.vertex_buffer])
        e3 == Record(e2, [cmd |-> "draw", vertices |-> <<0, Len(VERTICES)>>,
                          instances |-> <<0, 1>>])
        e4 == Record(e3, [cmd |-> "set_bind_group", index |-> 0,
                          bind_group |-> self.bind_group, offsets |-> <<>>])
    IN Record(e4, [cmd |-> "draw", vertices |-> <<0, Len(VERTICES)>>,
                   instances |-> <<0, 1>>])
Reshaper_encode_render_pass(self, dst_texture, enc) ==
    LET e0 == begin(color_attachment(Builder_new, dst_texture, <<>>), enc)
        e1 == Record(e0, [cmd |-> "set_pipeline", pipeline |-> self.render_pipeline])
        e2 == Record(e1, [cmd |-> "set_vertex_buffer", slot |-> 0,
                          buffer |-> self.vertex_buffer])
        e3 == Record(e2, [cmd |-> "set_bind_group", index |-> 0,
                          bind_group |-> self.bind_group, offsets |-> <<>>])
        vertex_range == <<0, Len(VERTICES)>>
        instance_range == <<0, 1>>
    IN Record(e3, [cmd |-> "draw", vertices |-> vertex_range,
                   instances |-> instance_range])

-----------------------------------------------------------------------------
(* Specification of the Reshaper *)

ReshaperArgs ==
    {[src_texture |-> ViewHandle(Texture(<<4, 2>>, "Rgba16Float", "SAMPLED", n)),
      src_sample_count |-> n,
      src_component_type |-> t,
      dst_sample_count |-> d,
      dst_format |-> "Rgba8Unorm"] :
        n \in 0..MaxSampleCount, t \in {"Float", "Uint"}, d \in {1, 4}}

Construct_Reshaper(a) ==
    Reshaper_new(a.src_texture, a.src_sample_count, a.src_component_type,
                 a.dst_sample_count, a.dst_format)

ReshInit ==
    /\ reshArgs \in ReshaperArgs
    /\ reshaper = Construct_Reshaper(reshArgs)
    /\ reshEncoder = <<>>
    /\ reshCall = None
    /\ PassIdle
    /\ AttIdle
    /\ RendIdle
    /\ SampIdle
    /\ PrimIdle

ReshaperNew(a) ==
    /\ reshArgs' = a
    /\ reshaper' = Construct_Reshaper(a)
    /\ reshCall' = None
    /\ reshEncoder' = <<>>
    /\ UNCHANGED notResh

ReshaperEncodeRenderPass(dst_texture, enc) ==
    /\ reshEncoder' = Reshaper_encode_render_pass(reshaper, dst_texture, enc)
    /\ reshCall' = Some([dst_texture |-> dst_texture, encoder |-> enc])
    /\ UNCHANGED <<reshaper, reshArgs, notResh>>

ReshNext ==
    \/ \E a \in ReshaperArgs : ReshaperNew(a)
    \/ \E dst \in Handles, enc \in {<<>>, <<OtherPass>>} : ReshaperEncodeRenderPass(dst, enc)

SpecReshaper == ReshInit /\ [][ReshNext]_vars

-----------------------------------------------------------------------------
(* Claims about the Reshaper (specification SpecReshaper) *)

\* C9: Reshaper::new picks the fragment shader by source sample count: the plain
\* shader for 1, the unrolled resolve shader for 2, 4, 8 and 16, the generic
\* multisample shader for every other count; it has a uniform buffer, holding the
\* source sample count, exactly when the count is none of 1, 2, 4, 8, 16.
C9_ShaderAndUniformBySampleCount ==
    LET n == reshArgs.src_sample_count IN
    /\ n = 1 => reshaper.fs_mod = "shaders/frag.spv"
    /\ n = 2 => reshaper.fs_mod = "shaders/frag_msaa2.spv"
    /\ n = 4 => reshaper.fs_mod = "shaders/frag_msaa4.spv"
    /\ n = 8 => reshaper.fs_mod = "shaders/frag_msaa8.spv"
    /\ n = 16 => reshaper.fs_mod = "shaders/frag_msaa16.spv"
    /\ n \notin {1, 2, 4, 8, 16} => reshaper.fs_mod = "shaders/frag_msaa.spv"
    /\ reshaper.render_pipeline.fragment_shader = reshaper.fs_mod
    /\ (reshaper.uniform_buffer # None) <=> (n \notin {1, 2, 4, 8, 16})
    /\ reshaper.uniform_buffer # None =>
          /\ reshaper.uniform_buffer[1].contents = [sample_count |-> n]
          /\ reshaper.uniform_buffer[1].usage = "UNIFORM"

C9_Witness ==
    /\ reshArgs.src_sample_count = 16
    /\ reshaper.fs_mod = "shaders/frag_msaa16.spv"
    /\ reshaper.uniform_buffer = None
    /\ reshCall # None

\* C10: each call of Reshaper::encode_render_pass records exactly one render
\* pass, whose only colour attachment is the destination texture with the default
\* operations and which has no depth stencil attachment; it sets the pipeline,
\* vertex buffer 0 and bind group 0 before drawing and issues exactly one draw,
\* of vertices 0..4 and instances 0..1, on a triangle-strip pipeline.
C10_OnePassOneDraw ==
    reshCall # None =>
        LET before == reshCall[1].encoder
            pass == reshEncoder[Len(reshEncoder)]
            cmds == pass.commands
            At(name) == {i \in 1..Len(cmds) : cmds[i].cmd = name}
            draws == At("draw")
        IN /\ Len(reshEncoder) = Len(before) + 1
           /\ \A i \in 1..Len(before) : reshEncoder[i] = before[i]
           /\ pass.descriptor.color_attachments =
                 <<[attachment |-> reshCall[1].dst_texture,
                    resolve_target |-> None,
                    ops |-> [load |-> Clear(TRANSPARENT), store |-> TRUE]]>>
           /\ pass.descriptor.depth_stencil_attachment = None
           /\ Cardinality(draws) = 1
           /\ \A d \in draws :
                 /\ d = Len(cmds)
                 /\ cmds[d].vertices = <<0, 4>>
                 /\ cmds[d].instances = <<0, 1>>
                 /\ \E i \in At("set_pipeline") :
                       /\ i < d
                       /\ cmds[i].pipeline = reshaper.render_pipeline
                       /\ cmds[i].pipeline.primitive_topology = "TriangleStrip"
                 /\ \E i \in At("set_vertex_buffer") :
                       /\ i < d
                       /\ cmds[i].slot = 0
                       /\ cmds[i].buffer.contents = VERTICES
                 /\ \E i \in At("set_bind_group") :
                       /\ i < d
                       /\ cmds[i].index = 0
                       /\ cmds[i].bind_group = reshaper.bind_group

C10_Witness ==
    /\ reshCall # None
    /\ reshCall[1].encoder = <<OtherPass>>
    /\ Len(reshEncoder) = 2
    /\ Len(reshEncoder[2].commands) = 4
    /\ reshEncoder[2].commands[4].cmd = "draw"

-----------------------------------------------------------------------------
(* wgpu::SamplerBuilder *)

MaxSamplerSetters == 2
MaxBuilds == 2

AddressModes == {"ClampToEdge", "Repeat"}
FilterModes == {"Nearest", "Linear"}
CompareFunctions == {"Always", "Less"}
\* f32 lod clamps other than the defaults
LodClamps == {0}

DEFAULT_ADDRESS_MODE_U == "ClampToEdge"
DEFAULT_ADDRESS_MODE_V == "ClampToEdge"
DEFAULT_ADDRESS_MODE_W == "ClampToEdge"
DEFAULT_MAG_FILTER == "Linear"
DEFAULT_MIN_FILTER == "Linear"
DEFAULT_MIPMAP_FILTER_linear == "Linear"
DEFAULT_MIPMAP_FILTER == "Nearest"
DEFAULT_LOD_MIN_CLAMP == -100
DEFAULT_LOD_MAX_CLAMP == 100
DEFAULT_COMPARE == "Always"
DEFAULT_ANISOTROPY_CLAMP == None

\* The descriptor assigns DEFAULT_COMPARE itself to `compare` (line 42), as the
\* setter `compare` assigns its argument (line 115): no Some(..) around either.
DEFAULT_DESCRIPTOR ==
    [address_mode_u |-> DEFAULT_ADDRESS_MODE_U,
     address_mode_v |-> DEFAULT_ADDRESS_MODE_V,
     address_mode_w |-> DEFAULT_ADDRESS_MODE_W,
     mag_filter |-> DEFAULT_MAG_FILTER,
     min_filter |-> DEFAULT_MIN_FILTER,
     mipmap_filter |-> DEFAULT_MIPMAP_FILTER,
     lod_min_clamp |-> DEFAULT_LOD_MIN_CLAMP,
     lod_max_clamp |-> DEFAULT_LOD_MAX_CLAMP,
     compare |-> DEFAULT_COMPARE,
     anisotropy_clamp |-> DEFAULT_ANISOTROPY_CLAMP]

\* new() is Self::default(), the builder of DEFAULT_DESCRIPTOR
SamplerBuilder_new == [descriptor |-> DEFAULT_DESCRIPTOR]

\* impl From<wgpu::SamplerDescriptor> for SamplerBuilder
SamplerBuilder_from(descriptor) == [descriptor |-> descriptor]

address_mode_u(self, mode) == [self EXCEPT !.descriptor.address_mode_u = mode]

address_mode_v(self, mode) == [self EXCEPT !.descriptor.address_mode_v = mode]

address_mode_w(self, mode) == [self EXCEPT !.descriptor.address_mode_w = mode]

address_mode_u_v_only(self, mode) == address_mode_v(address_mode_u(self, mode), mode)
address_mode(self, mode) ==
    address_mode_w(address_mode_v(address_mode_u(self, mode), mode), mode)

mag_filter(self, filter) == [self EXCEPT !.descriptor.mag_filter = filter]

min_filter(self, filter) == [self EXCEPT !.descriptor.min_filter = filter]

mipmap_filter(self, filter) == [self EXCEPT !.descriptor.mipmap_filter = filter]

lod_min_clamp(self, min) == [self EXCEPT !.descriptor.lod_min_clamp = min]

lod_max_clamp(self, max) == [self EXCEPT !.descriptor.lod_max_clamp = max]

compare(self, f) == [self EXCEPT !.descriptor.compare = f]

\* wgpu::SamplerDescriptor { label, ..self }: the label given, and every other
\* field taken from the builder, that is from the descriptor it holds.
to_descriptor_default_label(self, label) ==
    [label |-> Some("Sample descriptor"),
     address_mode_u |-> self.descriptor.address_mode_u,
     address_mode_v |-> self.descriptor.address_mode_v,
     address_mode_w |-> self.descriptor.address_mode_w,
     mag_filter |-> self.descriptor.mag_filter,
     min_filter |-> self.descriptor.min_filter,
     mipmap_filter |-> self.descriptor.mipmap_filter,
     lod_min_clamp |-> self.descriptor.lod_min_clamp,
     lod_max_clamp |-> self.descriptor.lod_max_clamp,
     compare |-> self.descriptor.compare,
     anisotropy_clamp |-> self.descriptor.anisotropy_clamp]
to_descriptor(self, label) ==
    [label |-> label,
     address_mode_u |-> self.descriptor.address_mode_u,
     address_mode_v |-> self.descriptor.address_mode_v,
     address_mode_w |-> self.descriptor.address_mode_w,
     mag_filter |-> self.descriptor.mag_filter,
     min_filter |-> self.descriptor.min_filter,
     mipmap_filter |-> self.descriptor.mipmap_filter,
     lod_min_clamp |-> self.descriptor.lod_min_clamp,
     lod_max_clamp |-> self.descriptor.lod_max_clamp,
     compare |-> self.descriptor.compare,
     anisotropy_clamp |-> self.descriptor.anisotropy_clamp]

\* device.create_sampler(&descriptor): a sampler of that configuration
SamplerBuilder_build(self) ==
    [configuration |-> to_descriptor(self, Some("Sample descriptor"))]

-----------------------------------------------------------------------------
(* Specification of the SamplerBuilder: one action per method call *)

\* The wgpu::SamplerDescriptor a builder is made from by From.
GivenDescriptors ==
    {[label |-> Some("given"),
      address_mode_u |-> "Repeat",
      address_mode_v |-> "ClampToEdge",
      address_mode_w |-> "Repeat",
      mag_filter |-> "Nearest",
      min_filter |-> "Linear",
      mipmap_filter |-> "Linear",
      lod_min_clamp |-> 0,
      lod_max_clamp |-> 1,
      compare |-> "Less",
      anisotropy_clamp |-> Some(4)]}

Labels == {None, Some("mine")}

SampInit ==
    /\ \/ /\ samplerB = Some(SamplerBuilder_new)
          /\ samplerLog = <<Call("new", None)>>
       \/ \E d \in GivenDescriptors :
             /\ samplerB = Some(SamplerBuilder_from(d))
             /\ samplerLog = <<Call("from", d)>>
    /\ prevSampler = None
    /\ samplerOut = <<>>
    /\ PassIdle
    /\ AttIdle
    /\ RendIdle
    /\ ReshIdle
    /\ PrimIdle

SamplerNew ==
    /\ samplerB' = Some(SamplerBuilder_new)
    /\ samplerLog' = <<Call("new", None)>>
    /\ prevSampler' = None
    /\ samplerOut' = <<>>
    /\ UNCHANGED notSamp

SamplerFrom(d) ==
    /\ samplerB' = Some(SamplerBuilder_from(d))
    /\ samplerLog' = <<Call("from", d)>>
    /\ prevSampler' = None
    /\ samplerOut' = <<>>
    /\ UNCHANGED notSamp

\* One setter call `c` on the builder, with the builder `b` it returns.
SamplerSetter(c, b) ==
    /\ Len(samplerLog) <= MaxSamplerSetters
    /\ samplerB' = Some(b)
    /\ samplerLog' = Append(samplerLog, c)
    /\ prevSampler' = Some(samplerB[1].descriptor)
    /\ samplerOut' = <<>>
    /\ UNCHANGED notSamp

AddressModeU(m) ==
    samplerB # None /\ SamplerSetter(Call("address_mode_u", m), address_mode_u(samplerB[1], m))

AddressModeV(m) ==
    samplerB # None /\ SamplerSetter(Call("address_mode_v", m), address_mode_v(samplerB[1], m))

AddressModeW(m) ==
    samplerB # None /\ SamplerSetter(Call("address_mode_w", m), address_mode_w(samplerB[1], m))

AddressMode(m) ==
    samplerB # None /\ SamplerSetter(Call("address_mode", m), address_mode(samplerB[1], m))

MagFilter(f) ==
    samplerB # None /\ SamplerSetter(Call("mag_filter", f), mag_filter(samplerB[1], f))

MinFilter(f) ==
    samplerB # None /\ SamplerSetter(Call("min_filter", f), min_filter(samplerB[1], f))

MipmapFilter(f) ==
    samplerB # None /\ SamplerSetter(Call("mipmap_filter", f), mipmap_filter(samplerB[1], f))

LodMinClamp(x) ==
    samplerB # None /\ SamplerSetter(Call("lod_min_clamp", x), lod_min_clamp(samplerB[1], x))

LodMaxClamp(x) ==
    samplerB # None /\ SamplerSetter(Call("lod_max_clamp", x), lod_max_clamp(samplerB[1], x))

Compare(f) ==
    samplerB # None /\ SamplerSetter(Call("compare", f), compare(samplerB[1], f))

\* build(&self): the builder stays as it is.
Build ==
    /\ samplerB # None
    /\ Len(samplerOut) < MaxBuilds
    /\ samplerOut' = Append(samplerOut, [via |-> "build", label |-> None,
                                         builder |-> samplerB[1],
                                         value |-> SamplerBuilder_build(samplerB[1])])
    /\ UNCHANGED <<samplerB, samplerLog, prevSampler, notSamp>>

\* to_descriptor(self, label): the builder is consumed.
ToDescriptor(label) ==
    /\ samplerB # None
    /\ samplerOut' = Append(samplerOut, [via |-> "to_descriptor", label |-> label,
                                         builder |-> samplerB[1],
                                         value |-> to_descriptor(samplerB[1], label)])
    /\ samplerB' = None
    /\ UNCHANGED <<samplerLog, prevSampler, notSamp>>

SampNext ==
    \/ SamplerNew
    \/ \E d \in GivenDescriptors : SamplerFrom(d)
    \/ \E m \in AddressModes : AddressModeU(m)
    \/ \E m \in AddressModes : AddressModeV(m)
    \/ \E m \in AddressModes : AddressModeW(m)
    \/ \E m \in AddressModes : AddressMode(m)
    \/ \E f \in FilterModes : MagFilter(f)
    \/ \E f \in FilterModes : MinFilter(f)
    \/ \E f \in FilterModes : MipmapFilter(f)
    \/ \E x \in LodClamps : LodMinClamp(x)
    \/ \E x \in LodClamps : LodMaxClamp(x)
    \/ \E f \in CompareFunctions : Compare(f)
    \/ Build
    \/ \E l \in Labels : ToDescriptor(l)

SpecSampler == SampInit /\ [][SampNext]_vars

-----------------------------------------------------------------------------
(* Properties of the SamplerBuilder *)

SamplerFields ==
    {"address_mode_u", "address_mode_v", "address_mode_w", "mag_filter", "min_filter",
     "mipmap_filter", "lod_min_clamp", "lod_max_clamp", "compare", "anisotropy_clamp"}

\* The descriptor fields a setter call assigns.
SetterFields(op) ==
    IF op = "address_mode"
    THEN {"address_mode_u", "address_mode_v", "address_mode_w"}
    ELSE {op}

\* The descriptor an entry of samplerOut stands for: the one to_descriptor
\* returned, or the configuration of the sampler build created.
ProducedSamplerDescriptor(o) ==
    IF o.via = "build" THEN o.value.configuration ELSE o.value

StatedSamplerDefaults ==
    [address_mode_u |-> "ClampToEdge",
     address_mode_v |-> "ClampToEdge",
     address_mode_w |-> "ClampToEdge",
     mag_filter |-> "Linear",
     min_filter |-> "Linear",
     mipmap_filter |-> "Nearest",
     lod_min_clamp |-> -100,
     lod_max_clamp |-> 100,
     compare |-> "Always",
     anisotropy_clamp |-> None]

\* C11: a builder made by SamplerBuilder::new() holds ClampToEdge on u, v and
\* w, Linear mag and min filters, Nearest mipmap filter, lod clamp -100..100,
\* compare Always and no anisotropy clamp; and every field that no setter call
\* since new() has assigned has that default in the builder and in every
\* descriptor produced from it (by to_descriptor or inside build).
C11_UnsetFieldsKeepDefaults ==
    (samplerLog # <<>> /\ samplerLog[1].op = "new") =>
        \A f \in SamplerFields :
            (\A i \in 2..Len(samplerLog) : f \notin SetterFields(samplerLog[i].op)) =>
                /\ samplerB # None => samplerB[1].descriptor[f] = StatedSamplerDefaults[f]
                /\ \A i \in 1..Len(samplerOut) :
                      ProducedSamplerDescriptor(samplerOut[i])[f] = StatedSamplerDefaults[f]

\* new(), then two setter calls that leave the mipmap filter alone, then a
\* descriptor produced.
C11_Witness ==
    /\ Len(samplerLog) = 3
    /\ samplerLog[1].op = "new"
    /\ \A i \in 2..3 : samplerLog[i].op \in {"mag_filter", "address_mode", "lod_min_clamp"}
    /\ samplerLog[2].op # samplerLog[3].op
    /\ Len(samplerOut) = 1
    /\ samplerOut[1].via = "to_descriptor"

\* C12: right after address_mode(m) the three address modes are m and every other
\* field of the descriptor is what it was before the call, and the builder is the
\* one that address_mode_u(m), address_mode_v(m), address_mode_w(m) give from the
\* builder before the call, in each of the six orders.
C12_AddressModeSetsAllAxes ==
    (/\ samplerB # None
     /\ Len(samplerLog) > 1
     /\ samplerLog[Len(samplerLog)].op = "address_mode") =>
        LET m == samplerLog[Len(samplerLog)].arg
            before == [samplerB[1] EXCEPT !.descriptor = prevSampler[1]]
            after == samplerB[1]
            U(b) == address_mode_u(b, m)
            V(b) == address_mode_v(b, m)
            W(b) == address_mode_w(b, m)
        IN  /\ after.descriptor.address_mode_u = m
            /\ after.descriptor.address_mode_v = m
            /\ after.descriptor.address_mode_w = m
            /\ DOMAIN after.descriptor = DOMAIN before.descriptor
            /\ \A f \in DOMAIN before.descriptor
                        \ {"address_mode_u", "address_mode_v", "address_mode_w"} :
                  after.descriptor[f] = before.descriptor[f]
            /\ after = W(V(U(before)))
            /\ after = V(W(U(before)))
            /\ after = W(U(V(before)))
            /\ after = U(W(V(before)))
            /\ after = V(U(W(before)))
            /\ after = U(V(W(before)))

\* address_mode(m) on a builder whose three axes did not all hold m, and whose
\* other fields are not the defaults.
C12_Witness ==
    /\ samplerB # None
    /\ Len(samplerLog) = 3
    /\ samplerLog[1].op = "from"
    /\ samplerLog[2].op = "mag_filter"
    /\ samplerLog[3].op = "address_mode"
    /\ prevSampler[1].address_mode_w # samplerLog[3].arg
    /\ prevSampler[1].address_mode_v = samplerLog[3].arg

\* C13: every descriptor returned by to_descriptor(label) has the label given
\* and, in every other field, the value the builder's descriptor had; every
\* sampler made by build has the configuration of that same descriptor with the
\* label "Sample descriptor"; build leaves the builder as it was, so two builds
\* from one builder give samplers of the same configuration.
C13_DescriptorOfTheBuilder ==
    /\ \A i \in 1..Len(samplerOut) :
          LET o == samplerOut[i]
              d == ProducedSamplerDescriptor(o)
          IN  /\ DOMAIN d = SamplerFields \cup {"label"}
              /\ \A f \in SamplerFields : d[f] = o.builder.descriptor[f]
              /\ o.via = "to_descriptor" => d.label = o.label
              /\ o.via = "build" =>
                    /\ d.label = Some("Sample descriptor")
                    /\ IF i < Len(samplerOut)
                       THEN samplerOut[i + 1].builder = o.builder
                       ELSE samplerB = Some(o.builder)
    /\ \A i, j \in 1..Len(samplerOut) :
          (samplerOut[i].via = "build" /\ samplerOut[j].via = "build") =>
              samplerOut[i].value = samplerOut[j].value

\* A builder made from a labelled descriptor, a setter called on it, two
\* builds and then to_descriptor with another label.
C13_Witness ==
    /\ Len(samplerLog) > 1
    /\ samplerLog[1].op = "from"
    /\ Len(samplerOut) = 3
    /\ samplerOut[1].via = "build"
    /\ samplerOut[2].via = "build"
    /\ samplerOut[3].via = "to_descriptor"
    /\ samplerOut[3].label = Some("mine")

-----------------------------------------------------------------------------
(* draw::primitive::texture::Texture *)

MaxMeshEntries == 2

\* geom::Rect is [x, y] of geom::Range [start, end]; f32 coordinates are whole
\* numbers here. geom::Rect::from_wh: the rectangle of that size about the origin
Rect_from_wh(w, h) ==
    [x |-> [start |-> -(w \div 2), end |-> w \div 2],
     y |-> [start |-> -(h \div 2), end |-> h \div 2]]

\* geom::Rect::invert_y: the y range end to start
invert_y(r) == [r EXCEPT !.y = [start |-> r.y.end, end |-> r.y.start]]

\* rect.corners().vertices(): the four corners, round from (x.start, y.start)
corners_vertices(r) ==
    << <<r.x.start, r.y.start>>, <<r.x.start, r.y.end>>,
       <<r.x.end, r.y.end>>, <<r.x.end, r.y.start>> >>

\* Transforms are translations <<dx, dy>>, <<0, 0>> the identity; `*` composes
\* them, and applying one to a point moves the point by it.
Mul(a, b) == <<a[1] + b[1], a[2] + b[2]>>

\* spatial::Properties::default() has no dimension set, the position at the
\* origin and no turn; w_h sets the x and y dimensions.
Texture_new(view) ==
    LET texture_view == view
        size == Deref(texture_view).view_of.size
        w == size[1]
        h == size[2]
        spatial == [dimensions |-> [x |-> Some(w), y |-> Some(h), z |-> None],
                    position |-> <<0, 0>>,
                    orientation |-> <<0, 0>>]
        x == [start |-> 0, end |-> 1]
        y == [start |-> 0, end |-> 1]
        area == [x |-> x, y |-> y]
    IN  [texture_view |-> texture_view, spatial |-> spatial, area |-> area]

Texture_area(self, rect) == [self EXCEPT !.area = rect]

\* SetDimensions::depth, through the properties() the primitive hands out
depth(self, d) == [self EXCEPT !.spatial.dimensions.z = Some(d)]

\* path::render_path_points_textured with Options::Fill: the closed path of
\* textured points, transformed, goes into the mesh.
render_path_points_textured(points_textured, close, transform, options, m) ==
    Append(m, [points |-> [i \in 1..Len(points_textured) |->
                              [position |-> Mul(transform, points_textured[i][1]),
                               tex_coords |-> points_textured[i][2]]],
               close |-> close,
               options |-> options])

\* render_primitive with the assertion moved behind the mesh update
render_primitive_assert_last(self, ctxt, m) ==
    LET dimensions == self.spatial.dimensions
        w == IF dimensions.x = None THEN 100 ELSE dimensions.x[1]
        h == IF dimensions.y = None THEN 100 ELSE dimensions.y[1]
        transform == Mul(ctxt.transform,
                         Mul(self.spatial.position, self.spatial.orientation))
        points_textured ==
            [i \in 1..4 |-> <<corners_vertices(Rect_from_wh(w, h))[i],
                              corners_vertices(invert_y(self.area))[i]>>]
        added == render_path_points_textured(points_textured, TRUE, transform, "Fill", m)
    IN  IF dimensions.z # None
        THEN [panic |-> Some("z dimension support for rect is unimplemented"),
              render |-> None,
              mesh |-> added]
        ELSE [panic |-> None,
              render |-> Some([texture_view |-> Some(self.texture_view),
                               vertex_mode |-> "Texture"]),
              mesh |-> added]

\* The outcome (the panic of the assertion, or the PrimitiveRender::texture
\* returned) and the mesh after. position.transform() is the translation to the
\* position and orientation.transform() the turn, here none.
render_primitive(self, ctxt, m) ==
    LET texture_view == self.texture_view
        spatial == self.spatial
        area == self.area
        dimensions == spatial.dimensions
        position == spatial.position
        orientation == spatial.orientation
        maybe_x == dimensions.x
        maybe_y == dimensions.y
        maybe_z == dimensions.z
    IN  IF ~(maybe_z = None)
        THEN [panic |-> Some("z dimension support for rect is unimplemented"),
              render |-> None,
              mesh |-> m]
        ELSE
            LET w == IF maybe_x = None THEN 100 ELSE maybe_x[1]
                h == IF maybe_y = None THEN 100 ELSE maybe_y[1]
                rect == Rect_from_wh(w, h)
                global_transform == ctxt.transform
                local_transform == Mul(position, orientation)
                transform == Mul(global_transform, local_transform)
                \* the zip of the two corner iterators
                points_textured ==
                    [i \in 1..4 |-> <<corners_vertices(rect)[i],
                                      corners_vertices(invert_y(area))[i]>>]
            IN  [panic |-> None,
                 render |-> Some([texture_view |-> Some(texture_view),
                                  vertex_mode |-> "Texture"]),
                 mesh |-> render_path_points_textured(points_textured, TRUE, transform,
                                                      "Fill", m)]

-----------------------------------------------------------------------------
(* Specification of the Texture primitive: made, configured, rendered *)

PrimInit ==
    /\ \E view \in {TextureView(TexA), TextureView(TexB)} : prim = Some(Texture_new(view))
    /\ mesh = <<>>
    /\ primRender = None
    /\ PassIdle
    /\ AttIdle
    /\ RendIdle
    /\ ReshIdle
    /\ SampIdle

\* The next primitive of the draw, for the same mesh; none after a panic.
TextureNew(view) ==
    /\ IF primRender = None THEN TRUE ELSE primRender[1].panic = None
    /\ prim' = Some(Texture_new(view))
    /\ primRender' = None
    /\ UNCHANGED <<mesh, notPrim>>

Area(rect) ==
    /\ prim # None
    /\ prim' = Some(Texture_area(prim[1], rect))
    /\ UNCHANGED <<mesh, primRender, notPrim>>

Depth(d) ==
    /\ prim # None
    /\ prim' = Some(depth(prim[1], d))
    /\ UNCHANGED <<mesh, primRender, notPrim>>

\* render_primitive(self, ctxt, mesh): the primitive is consumed.
RenderPrimitive(ctxt) ==
    /\ prim # None
    /\ Len(mesh) < MaxMeshEntries
    /\ LET r == render_primitive(prim[1], ctxt, mesh)
       IN  /\ mesh' = r.mesh
           /\ primRender' = Some([self |-> prim[1], ctxt |-> ctxt, mesh_before |-> mesh,
                                  panic |-> r.panic, render |-> r.render])
    /\ prim' = None
    /\ UNCHANGED notPrim

PrimNext ==
    \/ \E view \in {TextureView(TexA), TextureView(TexB)} : TextureNew(view)
    \/ \E rect \in {[x |-> [start |-> 0, end |-> 1], y |-> [start |-> 0, end |-> 1]],
                    [x |-> [start |-> 1, end |-> 3], y |-> [start |-> 0, end |-> 2]]} :
          Area(rect)
    \/ \E d \in {8} : Depth(d)
    \/ \E ctxt \in {[transform |-> <<0, 0>>], [transform |-> <<100, 10>>]} :
          RenderPrimitive(ctxt)

SpecTexture == PrimInit /\ [][PrimNext]_vars

\* C14: a Texture primitive rendered with its z dimension set panics with "z
\* dimension support for rect is unimplemented" and the mesh is as it was before
\* the call; rendered with z unset it returns the texture render of its own
\* texture view and the mesh has gained, after what it held, one closed path of
\* four points: the corners of the rectangle of the primitive's size about its
\* transformed position, each with a corner of the area as texture coordinates.
C14_ZDimensionAssertedBeforeMesh ==
    primRender # None =>
        LET c == primRender[1]
            dims == c.self.spatial.dimensions
        IN  /\ dims.z # None =>
                  /\ c.panic = Some("z dimension support for rect is unimplemented")
                  /\ c.render = None
                  /\ mesh = c.mesh_before
            /\ dims.z = None =>
                  /\ c.panic = None
                  /\ c.render = Some([texture_view |-> Some(c.self.texture_view),
                                      vertex_mode |-> "Texture"])
                  /\ Len(mesh) = Len(c.mesh_before) + 1
                  /\ SubSeq(mesh, 1, Len(c.mesh_before)) = c.mesh_before
                  /\ LET e == mesh[Len(mesh)]
                         cx == c.ctxt.transform[1] + c.self.spatial.position[1]
                         cy == c.ctxt.transform[2] + c.self.spatial.position[2]
                         hw == dims.x[1] \div 2
                         hh == dims.y[1] \div 2
                     IN  /\ e.close
                         /\ Len(e.points) = 4
                         /\ {e.points[i].position : i \in 1..4}
                               = {<<cx - hw, cy - hh>>, <<cx - hw, cy + hh>>,
                                  <<cx + hw, cy - hh>>, <<cx + hw, cy + hh>>}
                         /\ {e.points[i].tex_coords : i \in 1..4}
                               = {c.self.area.x.start, c.self.area.x.end}
                                    \X {c.self.area.y.start, c.self.area.y.end}

\* One primitive of another area rendered into the mesh, then one with a
\* depth set rendered.
C14_Witness ==
    /\ primRender # None
    /\ primRender[1].self.spatial.dimensions.z # None
    /\ Len(primRender[1].mesh_before) = 1
    /\ mesh[1].points[1].tex_coords[1] = 1

-----------------------------------------------------------------------------
(* The render pass of the Renderer (specification SpecRenderer) *)

\* The places in the last pass where command `cmd` was recorded.
PlacesOf(cmd) == {i \in 1..Len(LastPass.commands) : LastPass.commands[i].cmd = cmd}

\* C15: each call leaves on the encoder what it held plus exactly one render
\* pass, with one colour attachment (the output attachment given, with the
\* resolve target given) and the depth attachment; in the pass set_pipeline,
\* set_bind_group at index 0, set_index_buffer and set_vertex_buffers at slot 0
\* each come once and before the one draw_indexed, which has base vertex 0 and
\* instances 0..1. A call through render_to_texture or render_to_frame attaches
\* the view of its target, has no resolve target and uses the target's own
\* size; render_to_texture converts the vertices with scale factor 1.
C15_OnePassSetUpBeforeDraw ==
    encodeCall # None =>
        LET c == encodeCall[1]
            before == c.encoder
            pass == LastPass
            cmds == pass.commands
            color == pass.descriptor.color_attachments
            depth_attachment == pass.descriptor.depth_stencil_attachment
            draws == PlacesOf("draw_indexed")
            target == c.output_attachment.handle.view_of
        IN  /\ Len(encoder) = Len(before) + 1
            /\ SubSeq(encoder, 1, Len(before)) = before
            /\ Len(color) = 1
            /\ color[1].attachment = c.output_attachment.handle
            /\ color[1].resolve_target =
                  (IF c.resolve_target = None THEN None
                   ELSE Some(c.resolve_target[1].handle))
            /\ depth_attachment # None
            /\ depth_attachment[1].attachment = renderer.depth_texture_view.handle
            /\ Cardinality(draws) = 1
            /\ \A d \in draws :
                  /\ d = Len(cmds)
                  /\ cmds[d].base_vertex = 0
                  /\ cmds[d].instances = <<0, 1>>
                  /\ \A set \in {"set_pipeline", "set_bind_group", "set_index_buffer",
                                 "set_vertex_buffers"} :
                        /\ Cardinality(PlacesOf(set)) = 1
                        /\ \A i \in PlacesOf(set) : i < d
            /\ \A i \in PlacesOf("set_pipeline") : cmds[i].pipeline = renderer.render_pipeline
            /\ \A i \in PlacesOf("set_bind_group") :
                  cmds[i].index = 0 /\ cmds[i].bind_group = renderer.bind_group
            /\ \A i \in PlacesOf("set_index_buffer") :
                  cmds[i].buffer.contents = renderer.indices
            /\ \A i \in PlacesOf("set_vertex_buffers") :
                  /\ cmds[i].start_slot = 0
                  /\ Len(cmds[i].buffers) = 1
                  /\ cmds[i].buffers[1][1].contents = renderer.vertices
            /\ c.via \in {"render_to_texture", "render_to_frame"} =>
                  /\ color[1].resolve_target = None
                  /\ renderer.depth_texture.size = target.size
                  /\ \A i \in 1..Len(c.draw.vertices) :
                        LET k == IF c.via = "render_to_texture" THEN 1 ELSE c.scale_factor
                        IN  /\ renderer.vertices[i].position[1] * target.size[1]
                                  = 2 * c.draw.vertices[i].point[1] * k
                            /\ renderer.vertices[i].position[2] * target.size[2]
                                  = -(2 * c.draw.vertices[i].point[2] * k)

\* render_to_texture of a Draw with vertices and indices, to a texture of
\* another size than the renderer was made for, on an encoder that held a pass.
C15_Witness ==
    /\ encodeCall # None
    /\ encodeCall[1].via = "render_to_texture"
    /\ encodeCall[1].encoder # <<>>
    /\ Len(encoder) = 2
    /\ Len(encodeCall[1].draw.vertices) = 2
    /\ Len(encodeCall[1].draw.indices) = 2
    /\ encodeCall[1].output_attachment.handle.view_of.size # ctor.size
    /\ Len(LastPass.commands) = 5

====
